---------------------------- MODULE Spec2Model ----------------------------
(***************************************************************************)
(* Model of the requirements-engineering desktop utility:                  *)
(*   FileHandler (core/file_handler.py), RequirementAnalyzer               *)
(*   (core/analyzer.py), ReportExporter (core/exporter.py) and the         *)
(*   pipeline that MainWindow (ui/main_window.py) drives.                  *)
(*                                                                         *)
(* Text is a sequence of Unicode code points (Python str), so that         *)
(* character classes, the Latin-1 range and slicing are what the code      *)
(* computes.                                                               *)
(***************************************************************************)
EXTENDS Integers, Sequences, FiniteSets, TLC

(***************************************************************************)
(* Characters and strings                                                  *)
(***************************************************************************)

\* The printable ASCII characters, code points 32..126 in order (the
\* backtick, 96, has no literal here and keeps its place).
AsciiTable ==
  << " ", "!", "\"", "#", "$", "%", "&", "'", "(", ")", "*", "+", ",", "-",
     ".", "/", "0", "1", "2", "3", "4", "5", "6", "7", "8", "9", ":", ";",
     "<", "=", ">", "?", "@", "A", "B", "C", "D", "E", "F", "G", "H", "I",
     "J", "K", "L", "M", "N", "O", "P", "Q", "R", "S", "T", "U", "V", "W",
     "X", "Y", "Z", "[", "\\", "]", "^", "_", "<backtick>", "a", "b", "c", "d", "e",
     "f", "g", "h", "i", "j", "k", "l", "m", "n", "o", "p", "q", "r", "s",
     "t", "u", "v", "w", "x", "y", "z", "{", "|", "}", "~" >>

\* ord(c) of a one-character literal.
Ord(c) ==
  IF c = "\n" THEN 10
  ELSE IF c = "\t" THEN 9
  ELSE 31 + (CHOOSE n \in 1..Len(AsciiTable) : AsciiTable[n] = c)

\* The str whose characters are the one-character literals of t.
Str(t) == [i \in 1..Len(t) |-> Ord(t[i])]

Min(a, b) == IF a <= b THEN a ELSE b

RECURSIVE Concat(_)
\* "".join(parts)
Concat(parts) ==
  IF parts = <<>> THEN <<>> ELSE Head(parts) \o Concat(Tail(parts))

\* s.startswith(p)
StartsWith(s, p) == Len(s) >= Len(p) /\ SubSeq(s, 1, Len(p)) = p

\* s[n:] for 0 <= n
DropFirst(s, n) == SubSeq(s, n + 1, Len(s))

\* Code points used by name below.
HYPHEN == Ord("-")
SPACE  == Ord(" ")
LF     == Ord("\n")
DOT    == Ord(".")
QMARK  == Ord("?")

(***************************************************************************)
(* Character classes of Python's re for str patterns (Unicode matching).   *)
(* Each class lists its ASCII members in full and the non-ASCII members    *)
(* that the inputs drawn below can contain.                                *)
(***************************************************************************)

\* \s : [ \t\n\r\f\v], the separators 0x1c..0x1f, NEL, NBSP, ...
IsSpace(c) == c \in {9, 10, 11, 12, 13, 28, 29, 30, 31, 32, 133, 160, 8232}

\* \d : [0-9] and every other decimal digit (here ARABIC-INDIC DIGIT ONE)
IsDigit(c) == c \in 48..57 \/ c = 1633

\* \w : alphanumerics and the underscore (here also the Latin-1 letters
\* a-umlaut, sharp s, the long s, dotted capital I and dotless i)
IsWord(c) ==
  \/ IsDigit(c)
  \/ c \in 65..90
  \/ c \in 97..122
  \/ c = 95
  \/ c \in {228, 223, 383, 304, 305}

\* Case folding of re.IGNORECASE: lower case, plus the equivalences the
\* engine adds for i (dotted I, dotless i) and s (long s).
Fold(c) ==
  IF c \in 65..90 THEN c + 32
  ELSE IF c \in {304, 305} THEN Ord("i")
  ELSE IF c = 383 THEN Ord("s")
  ELSE c

\* Membership in the class named cls: "s" for \s, "d" for \d, "w" for \w.
InClass(cls, c) ==
  IF cls = "s" THEN IsSpace(c)
  ELSE IF cls = "d" THEN IsDigit(c)
  ELSE IsWord(c)

\* End (exclusive index) of the maximal run of characters of class cls that
\* starts at index i of s; i itself when s[i] is not in the class.
RunEnd(cls, s, i) ==
  LET stop == {j \in i..Len(s) : ~InClass(cls, s[j])}
  IN  IF stop = {} THEN Len(s) + 1
      ELSE CHOOSE j \in stop : \A k \in stop : j <= k

\* Whether the literal lit occurs at index i of s, ignoring case.
LiteralAt(s, i, lit) ==
  /\ i + Len(lit) - 1 <= Len(s)
  /\ \A k \in 1..Len(lit) : Fold(s[i + k - 1]) = Fold(lit[k])

(***************************************************************************)
(* FileHandler.preprocess_text: the three substitutions                    *)
(***************************************************************************)

\* The match of (\w+)-\s+(\w+) at index i: end = 0 when there is none.
\* Each quantifier is greedy and the character that must follow it is
\* outside its class, so the maximal runs are the only candidate.
HyphenMatch(s, i) ==
  LET a == RunEnd("w", s, i)
      b == RunEnd("s", s, a + 1)
      c == RunEnd("w", s, b)
  IN  IF /\ a > i
         /\ a <= Len(s)
         /\ s[a] = HYPHEN
         /\ b > a + 1
         /\ c > b
      THEN [end |-> c, g1 |-> SubSeq(s, i, a - 1), g2 |-> SubSeq(s, b, c - 1)]
      ELSE [end |-> 0, g1 |-> <<>>, g2 |-> <<>>]

RECURSIVE SubHyphen(_, _)
\* re.sub scanning from index i: leftmost non-overlapping matches, the
\* scan resuming after each match.
SubHyphen(s, i) ==
  IF i > Len(s) THEN <<>>
  ELSE LET m == HyphenMatch(s, i)
       IN  IF m.end = 0
           THEN <<s[i]>> \o SubHyphen(s, i + 1)
           ELSE m.g1 \o m.g2 \o SubHyphen(s, m.end)

\* re.sub(r'(\w+)-\s+(\w+)', r'\1\2', text)
JoinHyphens(text) == SubHyphen(text, 1)

SEITE == Str(<<"S", "e", "i", "t", "e">>)
VON   == Str(<<"v", "o", "n">>)

\* End (exclusive) of the match of (?i)Seite\s+\d+\s+von\s+\d+ at index i,
\* 0 when there is none.
FooterMatchEnd(s, i) ==
  LET a == i + Len(SEITE)
      b == RunEnd("s", s, a)
      c == RunEnd("d", s, b)
      d == RunEnd("s", s, c)
      e == d + Len(VON)
      f == RunEnd("s", s, e)
      g == RunEnd("d", s, f)
  IN  IF /\ LiteralAt(s, i, SEITE)
         /\ b > a
         /\ c > b
         /\ d > c
         /\ LiteralAt(s, d, VON)
         /\ f > e
         /\ g > f
      THEN g
      ELSE 0

RECURSIVE SubFooter(_, _)
SubFooter(s, i) ==
  IF i > Len(s) THEN <<>>
  ELSE LET e == FooterMatchEnd(s, i)
       IN  IF e = 0
           THEN <<s[i]>> \o SubFooter(s, i + 1)
           ELSE SubFooter(s, e)

\* re.sub(r'(?i)Seite\s+\d+\s+von\s+\d+', '', text)
StripFooters(text) == SubFooter(text, 1)

RECURSIVE SubSpace(_, _)
SubSpace(s, i) ==
  IF i > Len(s) THEN <<>>
  ELSE IF IsSpace(s[i])
       THEN <<SPACE>> \o SubSpace(s, RunEnd("s", s, i))
       ELSE <<s[i]>> \o SubSpace(s, i + 1)

\* re.sub(r'\s+', ' ', text)
CollapseSpaces(text) == SubSpace(text, 1)

\* str.strip()
Strip(s) ==
  LET keep == {j \in 1..Len(s) : ~IsSpace(s[j])}
  IN  IF keep = {} THEN <<>>
      ELSE SubSeq(s,
                  CHOOSE j \in keep : \A k \in keep : j <= k,
                  CHOOSE j \in keep : \A k \in keep : j >= k)

\* Python's None where a str is expected: no str holds a negative code point.
NONE == <<-1>>

\* A preprocess_text that deletes the footers before it joins the hyphen
\* breaks.
PreprocessResult_footers_first(raw) ==
  IF raw = <<>> THEN <<>>
  ELSE Strip(CollapseSpaces(JoinHyphens(StripFooters(raw))))

\* FileHandler.preprocess_text, its return value for the stored raw_text.
PreprocessResult(raw) ==
  IF raw = <<>> THEN <<>>
  ELSE Strip(CollapseSpaces(StripFooters(JoinHyphens(raw))))

\* FileHandler.preprocess_text, the clean_text field after the call: the
\* early return leaves it as it was.
PreprocessCleanText(raw, old_clean) ==
  IF raw = <<>> THEN old_clean ELSE PreprocessResult(raw)

(***************************************************************************)
(* RequirementAnalyzer                                                     *)
(***************************************************************************)

MAX_INPUT_LENGTH == 12000

\* The system prompt (its first line stands for the fixed text).
SYSTEM_PROMPT ==
  Str(<<"D", "u", " ", "b", "i", "s", "t", " ", "e", "i", "n", " ", "R", "E",
        " ", "B", "o", "t", ".">>)

\* "Input Text:\n\n"
INPUT_LABEL ==
  Str(<<"I", "n", "p", "u", "t", " ", "T", "e", "x", "t", ":", "\n", "\n">>)

\* "Fehler"
FEHLER == Str(<<"F", "e", "h", "l", "e", "r">>)

\* "Fehler: "
FEHLER_PREFIX == FEHLER \o Str(<<":", " ">>)

\* "Fehler: Leere Antwort vom Modell erhalten."
EMPTY_RESPONSE_ERROR ==
  FEHLER_PREFIX \o
  Str(<<"L", "e", "e", "r", "e", " ", "A", "n", "t", "w", "o", "r", "t", " ",
        "v", "o", "m", " ", "M", "o", "d", "e", "l", "l", " ", "e", "r", "h",
        "a", "l", "t", "e", "n", ".">>)

\* A truncation that keeps one character more: text_input[:MAX + 1]
Truncate_one_more(text_input) ==
  SubSeq(text_input, 1, Min(Len(text_input), MAX_INPUT_LENGTH + 1))

\* text_input[:self.MAX_INPUT_LENGTH]
Truncate(text_input) ==
  SubSeq(text_input, 1, Min(Len(text_input), MAX_INPUT_LENGTH))

\* The messages passed to ollama.chat.
ChatMessages(text_input) ==
  << [role |-> "system", content |-> SYSTEM_PROMPT],
     [role |-> "user", content |-> INPUT_LABEL \o Truncate(text_input)] >>

\* What analyze_text returns when ollama.chat ends with reply: an exception
\* [kind |-> "raise", msg], or a response [kind |-> "response", content]
\* whose content is NONE when the message or its content is missing.
AnalyzeResult(reply) ==
  IF reply.kind = "raise" THEN FEHLER_PREFIX \o reply.msg
  ELSE IF reply.content = NONE \/ reply.content = <<>>
       THEN EMPTY_RESPONSE_ERROR
       ELSE reply.content

(***************************************************************************)
(* ReportExporter                                                          *)
(***************************************************************************)

\* Index of the last '.' of name, 0 when it has none (str.rfind + 1).
LastDot(name) ==
  LET dots == {j \in 1..Len(name) : name[j] = DOT}
  IN  IF dots = {} THEN 0
      ELSE CHOOSE j \in dots : \A k \in dots : j >= k

\* PurePath.suffix: the last dot and what follows it, unless that dot is the
\* first or the last character of the name.
Suffix(name) ==
  LET i == LastDot(name)
  IN  IF 1 < i /\ i < Len(name) THEN SubSeq(name, i, Len(name)) ELSE <<>>

\* PurePath.stem
Stem(name) ==
  LET i == LastDot(name)
  IN  IF 1 < i /\ i < Len(name) THEN SubSeq(name, 1, i - 1) ELSE name

\* PurePath.with_suffix applied to a name: the name's own suffix, when it
\* has one, is replaced.
WithSuffix(name, suffix) ==
  SubSeq(name, 1, Len(name) - Len(Suffix(name))) \o suffix

REPORT    == Str(<<"_", "R", "e", "p", "o", "r", "t">>)
EXT_DOCX  == Str(<<".", "d", "o", "c", "x">>)
EXT_PDF   == Str(<<".", "p", "d", "f">>)

\* A path is its parent directory and its file name; NoPath stands for None
\* and for the empty path string.
NoPath == [parent |-> "", name |-> <<>>]

\* output_dir / f"{base_name}_Report"
ReportBase(original_path) ==
  [parent |-> original_path.parent, name |-> Stem(original_path.name) \o REPORT]

\* report_base.with_suffix(suffix)
ReportPath(original_path, suffix) ==
  LET report_base == ReportBase(original_path)
  IN  [parent |-> report_base.parent, name |-> WithSuffix(report_base.name, suffix)]

RECURSIVE SplitFrom(_, _, _)
SplitFrom(s, sep, i) ==
  LET seps == {j \in i..Len(s) : s[j] = sep}
  IN  IF seps = {} THEN <<SubSeq(s, i, Len(s))>>
      ELSE LET j == CHOOSE x \in seps : \A y \in seps : x <= y
           IN  <<SubSeq(s, i, j - 1)>> \o SplitFrom(s, sep, j + 1)

\* s.split(sep) for a one-character separator
Split(s, sep) == SplitFrom(s, sep, 1)

RECURSIVE ReplaceFrom(_, _, _, _)
ReplaceFrom(s, old, new, i) ==
  IF i > Len(s) THEN <<>>
  ELSE IF i + Len(old) - 1 <= Len(s) /\ SubSeq(s, i, i + Len(old) - 1) = old
       THEN new \o ReplaceFrom(s, old, new, i + Len(old))
       ELSE <<s[i]>> \o ReplaceFrom(s, old, new, i + 1)

\* s.replace(old, new) for a non-empty old: every occurrence, left to right
Replace(s, old, new) == ReplaceFrom(s, old, new, 1)

H1 == Str(<<"#", " ">>)
H2 == Str(<<"#", "#", " ">>)
H3 == Str(<<"#", "#", "#", " ">>)

\* A _create_docx that does not strip the line.
DocxLine_untrimmed(raw_line) ==
  LET line == raw_line
  IN  IF line = <<>> THEN <<>>
      ELSE IF StartsWith(line, H1)
           THEN <<[kind |-> "heading", level |-> 1, text |-> Replace(line, H1, <<>>)]>>
      ELSE IF StartsWith(line, H2)
           THEN <<[kind |-> "heading", level |-> 2, text |-> Replace(line, H2, <<>>)]>>
      ELSE IF StartsWith(line, H3)
           THEN <<[kind |-> "heading", level |-> 3, text |-> Replace(line, H3, <<>>)]>>
      ELSE <<[kind |-> "paragraph", level |-> 0, text |-> line]>>

\* What one line of the text adds to the document in _create_docx.
DocxLine(raw_line) ==
  LET line == Strip(raw_line)
  IN  IF line = <<>> THEN <<>>
      ELSE IF StartsWith(line, H1)
           THEN <<[kind |-> "heading", level |-> 1, text |-> Replace(line, H1, <<>>)]>>
      ELSE IF StartsWith(line, H2)
           THEN <<[kind |-> "heading", level |-> 2, text |-> Replace(line, H2, <<>>)]>>
      ELSE IF StartsWith(line, H3)
           THEN <<[kind |-> "heading", level |-> 3, text |-> Replace(line, H3, <<>>)]>>
      ELSE <<[kind |-> "paragraph", level |-> 0, text |-> line]>>

RECURSIVE DocxLines(_)
DocxLines(lines) ==
  IF lines = <<>> THEN <<>>
  ELSE DocxLine(Head(lines)) \o DocxLines(Tail(lines))

\* 'Requirements Analyse Report', the title both renderings start with
REPORT_TITLE ==
  Str(<<"R", "e", "q", "u", "i", "r", "e", "m", "e", "n", "t", "s", " ", "A",
        "n", "a", "l", "y", "s", "e", " ", "R", "e", "p", "o", "r", "t">>)

\* The document _create_docx builds: the title heading, then the lines.
DocxDocument(text) ==
  <<[kind |-> "heading", level |-> 0, text |-> REPORT_TITLE]>>
  \o DocxLines(Split(text, LF))

\* The replacements table of _sanitize_for_pdf, in its order: en dash, em
\* dash, low and high German quotes, check mark, cross, bullet.
Replacements ==
  << [char |-> 8211,  replacement |-> Str(<<"-">>)],
     [char |-> 8212,  replacement |-> Str(<<"-">>)],
     [char |-> 8222,  replacement |-> Str(<<"\"">>)],
     [char |-> 8220,  replacement |-> Str(<<"\"">>)],
     [char |-> 10004, replacement |-> Str(<<"[", "O", "K", "]">>)],
     [char |-> 10060, replacement |-> Str(<<"[", "X", "]">>)],
     [char |-> 8226,  replacement |-> Str(<<"-">>)] >>

RECURSIVE ApplyReplacements(_, _)
\* for char, replacement in replacements.items(): text = text.replace(...)
ApplyReplacements(text, k) ==
  IF k > Len(Replacements) THEN text
  ELSE ApplyReplacements(
         Replace(text, <<Replacements[k].char>>, Replacements[k].replacement),
         k + 1)

RECURSIVE EncodeLatin1Ignore(_)
\* An encoding that drops what Latin-1 lacks: encode('latin-1', 'ignore')
EncodeLatin1Ignore(text) ==
  IF text = <<>> THEN <<>>
  ELSE (IF Head(text) \in 0..255 THEN <<Head(text)>> ELSE <<>>)
       \o EncodeLatin1Ignore(Tail(text))

\* text.encode('latin-1', 'replace').decode('latin-1')
EncodeLatin1Replace(text) ==
  [i \in 1..Len(text) |-> IF text[i] \in 0..255 THEN text[i] ELSE QMARK]

\* ReportExporter._sanitize_for_pdf
SanitizeForPdf(text) == EncodeLatin1Replace(ApplyReplacements(text, 1))

(***************************************************************************)
(* FileHandler: paths, the files on disk and read_text                     *)
(***************************************************************************)

\* str.lower() on ASCII text
Lower(s) == [i \in 1..Len(s) |-> IF s[i] \in 65..90 THEN s[i] + 32 ELSE s[i]]

FilePath(name) == [parent |-> "/a/b", name |-> name]

DOC_PDF      == FilePath(Str(<<"d", "o", "c", ".", "p", "d", "f">>))
LOG_DOCX     == FilePath(Str(<<"l", "o", "g", ".", "D", "O", "C", "X">>))
EMPTY_DOCX   == FilePath(Str(<<"e", "m", "p", "t", "y", ".", "d", "o", "c", "x">>))
NOTES_TXT    == FilePath(Str(<<"n", "o", "t", "e", "s", ".", "t", "x", "t">>))
MISSING_PDF  == FilePath(Str(<<"g", "o", "n", "e", ".", "p", "d", "f">>))

\* The files that exist.
Files == {DOC_PDF, LOG_DOCX, EMPTY_DOCX, NOTES_TXT}

\* What the files hold: the texts extract_text gives for the pages of a
\* PDF, the texts of the paragraphs of a DOCX.  doc.pdf is one page with a
\* footer and a hyphen break, log.DOCX one paragraph that starts with
\* "Fehler", empty.docx has no paragraph.
FileContent(path) ==
  IF path = DOC_PDF
  THEN << Str(<<"S", "e", "i", "t", "e", " ", "1", " ", "v", "o", "n", " ", "2",
                "\n", "S", "y", "s", "-", "\n", "t", "e", "m">>) >>
  ELSE IF path = LOG_DOCX
  THEN << Str(<<"F", "e", "h", "l", "e", "r", "l", "i", "s", "t", "e">>) >>
  ELSE IF path = EMPTY_DOCX THEN <<>>
  ELSE << Str(<<"n", "o", "t", "e", "s">>) >>

RECURSIVE ReadPdf(_)
\* FileHandler._read_pdf: every page that yields text, followed by "\n"
ReadPdf(pages) ==
  IF pages = <<>> THEN <<>>
  ELSE (IF Head(pages) # <<>> THEN Append(Head(pages), LF) ELSE <<>>)
       \o ReadPdf(Tail(pages))

RECURSIVE Join(_, _)
\* sep.join(parts)
Join(parts, sep) ==
  IF parts = <<>> THEN <<>>
  ELSE IF Len(parts) = 1 THEN Head(parts)
  ELSE Head(parts) \o sep \o Join(Tail(parts), sep)

\* FileHandler._read_docx: the paragraphs joined with "\n"
ReadDocx(paragraphs) == Join(paragraphs, <<LF>>)

\* What the file dialog can return: an existing file, a path that is no
\* file, or nothing (the dialog was cancelled).
DialogPaths == Files \cup {MISSING_PDF, NoPath}

\* str(e) of the exceptions a read can raise
ReadErrors == {Str(
      <<"E", "O", "F", " ", "m", "a", "r", "k", "e", "r", " ", "n", "o",
        "t", " ", "f", "o", "u", "n", "d">>)}

\* What opening and parsing a file can do: give its content or raise.
ContentOutcomes(content) ==
  {[kind |-> "content", content |-> content, text |-> <<>>]}
  \cup {[kind |-> "raise", content |-> <<>>, text |-> e] : e \in ReadErrors}

ReadOutcomes(path) == ContentOutcomes(FileContent(path))

ERR_NO_PATH == Str(
      <<"F", "e", "h", "l", "e", "r", ":", " ", "K", "e", "i", "n", " ",
        "D", "a", "t", "e", "i", "p", "f", "a", "d", " ", "g", "e", "s",
        "e", "t", "z", "t", ".">>)
ERR_FORMAT_HEAD == Str(
      <<"F", "e", "h", "l", "e", "r", ":", " ", "D", "a", "t", "e", "i",
        "f", "o", "r", "m", "a", "t", " ", "'">>)
\* "' wird nicht unterstuetzt." (the u-umlaut is code point 252)
ERR_FORMAT_TAIL ==
  Str(
      <<"'", " ", "w", "i", "r", "d", " ", "n", "i", "c", "h", "t", " ",
        "u", "n", "t", "e", "r", "s", "t">>) \o <<252>> \o Str(<<"t", "z", "t", ".">>)
ERR_READ == Str(
      <<"F", "e", "h", "l", "e", "r", " ", "b", "e", "i", "m", " ", "L",
        "e", "s", "e", "n", " ", "d", "e", "r", " ", "D", "a", "t", "e",
        "i", ":", " ">>)

\* FileHandler.set_file_path: the current_file_path after the call.
SetFilePath(old_path, path) ==
  IF path = NoPath THEN old_path
  ELSE IF path \in Files THEN path
  ELSE old_path

\* A read_text that compares the extension as it is written.
ReadText_case_sensitive(path, old_raw, io) ==
  IF path = NoPath
  THEN [ret |-> ERR_NO_PATH, raw_text |-> old_raw, failed |-> TRUE,
        reader |-> "none"]
  ELSE LET suffix == Suffix(path.name)
           reader == IF suffix = EXT_PDF THEN "_read_pdf"
                     ELSE IF suffix = EXT_DOCX THEN "_read_docx"
                     ELSE "none"
           text   == IF reader = "_read_pdf" THEN ReadPdf(io.content)
                     ELSE ReadDocx(io.content)
       IN  IF reader = "none"
           THEN [ret |-> ERR_FORMAT_HEAD \o Lower(suffix) \o ERR_FORMAT_TAIL,
                 raw_text |-> old_raw, failed |-> TRUE, reader |-> reader]
           ELSE IF io.kind = "raise"
           THEN [ret |-> ERR_READ \o io.text, raw_text |-> old_raw,
                 failed |-> TRUE, reader |-> reader]
           ELSE [ret |-> text, raw_text |-> text, failed |-> FALSE,
                 reader |-> reader]

\* FileHandler.read_text with the outcome io of opening the file: the value
\* returned, the raw_text field after the call, whether the call took one
\* of its error returns, and the helper it handed the file to.
ReadText(path, old_raw, io) ==
  IF path = NoPath
  THEN [ret |-> ERR_NO_PATH, raw_text |-> old_raw, failed |-> TRUE,
        reader |-> "none"]
  ELSE LET suffix == Lower(Suffix(path.name))
           reader == IF suffix = EXT_PDF THEN "_read_pdf"
                     ELSE IF suffix = EXT_DOCX THEN "_read_docx"
                     ELSE "none"
           text   == IF reader = "_read_pdf" THEN ReadPdf(io.content)
                     ELSE ReadDocx(io.content)
       IN  IF reader = "none"
           THEN [ret |-> ERR_FORMAT_HEAD \o suffix \o ERR_FORMAT_TAIL,
                 raw_text |-> old_raw, failed |-> TRUE, reader |-> reader]
           ELSE IF io.kind = "raise"
           THEN [ret |-> ERR_READ \o io.text, raw_text |-> old_raw,
                 failed |-> TRUE, reader |-> reader]
           ELSE [ret |-> text, raw_text |-> text, failed |-> FALSE,
                 reader |-> reader]

\* The texts raw_text can hold while the window runs: the empty text of
\* __init__ and what read_text got from a file.
RawTexts ==
  {<<>>} \cup
  UNION {{ReadText(path, <<>>, io).raw_text : io \in ReadOutcomes(path)} :
           path \in Files}

\* What preprocess_text returns for each of them.
PreprocessedTexts == [raw \in RawTexts |-> PreprocessResult(raw)]

\* FileHandler.get_full_path
GetFullPath(path) == path

(***************************************************************************)
(* ReportExporter.save_reports                                             *)
(***************************************************************************)

RECURSIVE SanitizeLines(_)
SanitizeLines(lines) ==
  IF lines = <<>> THEN <<>>
  ELSE <<SanitizeForPdf(Head(lines))>> \o SanitizeLines(Tail(lines))

\* The cells _create_pdf renders: the title, then every line, sanitized.
PdfDocument(text) == <<REPORT_TITLE>> \o SanitizeLines(Split(text, LF))

\* A save_reports that gives up when the DOCX could not be written.
SaveReports_stop_after_docx_failure(text_content, original_file_path, docx_ok, pdf_ok) ==
  IF original_file_path = NoPath \/ text_content = <<>>
  THEN [docx_called |-> FALSE, pdf_called |-> FALSE,
        docx_target |-> NoPath, pdf_target |-> NoPath,
        ret |-> <<NoPath, NoPath>>, written |-> {}]
  ELSE LET path_docx == ReportPath(original_file_path, EXT_DOCX)
           path_pdf  == ReportPath(original_file_path, EXT_PDF)
       IN  IF ~docx_ok
           THEN [docx_called |-> TRUE, pdf_called |-> FALSE,
                 docx_target |-> path_docx, pdf_target |-> NoPath,
                 ret |-> <<NoPath, NoPath>>, written |-> {}]
           ELSE [docx_called |-> TRUE, pdf_called |-> TRUE,
                 docx_target |-> path_docx, pdf_target |-> path_pdf,
                 ret |-> <<path_docx, IF pdf_ok THEN path_pdf ELSE NoPath>>,
                 written |->
                   {[path |-> path_docx, format |-> "docx",
                     text |-> text_content]}
                   \cup
                   (IF pdf_ok
                    THEN {[path |-> path_pdf, format |-> "pdf",
                           text |-> text_content]}
                    ELSE {})]

\* save_reports(text_content, original_file_path) when saving the DOCX
\* succeeds iff docx_ok and writing the PDF succeeds iff pdf_ok:
\*   docx_target, pdf_target  the paths handed to the two renderers (NoPath
\*                            when the renderer is not called),
\*   ret                      the pair returned,
\*   written                  the files written.
SaveReports(text_content, original_file_path, docx_ok, pdf_ok) ==
  IF original_file_path = NoPath \/ text_content = <<>>
  THEN [docx_called |-> FALSE, pdf_called |-> FALSE,
        docx_target |-> NoPath, pdf_target |-> NoPath,
        ret |-> <<NoPath, NoPath>>, written |-> {}]
  ELSE LET path_docx == ReportPath(original_file_path, EXT_DOCX)
           path_pdf  == ReportPath(original_file_path, EXT_PDF)
       IN  [docx_called |-> TRUE, pdf_called |-> TRUE,
            docx_target |-> path_docx, pdf_target |-> path_pdf,
            ret |-> <<IF docx_ok THEN path_docx ELSE NoPath,
                      IF pdf_ok THEN path_pdf ELSE NoPath>>,
            written |->
              (IF docx_ok
               THEN {[path |-> path_docx, format |-> "docx",
                      text |-> text_content]}
               ELSE {})
              \cup
              (IF pdf_ok
               THEN {[path |-> path_pdf, format |-> "pdf",
                      text |-> text_content]}
               ELSE {})]

(***************************************************************************)
(* State                                                                   *)
(***************************************************************************)

VARIABLES
  current_file_path,  \* FileHandler.current_file_path (NoPath: None)
  raw_text,           \* FileHandler.raw_text
  clean_text,         \* FileHandler.clean_text
  btn_run,            \* state of the "Analyse starten" button
  btn_select,         \* state of the "Datei waehlen" button
  lbl_status,         \* text of the status label
  threads,            \* the worker threads started, in order of start
  after_queue,        \* callbacks scheduled with after(0, ...), in order
  written,            \* the report files written, each with its run
  finished,           \* the _finished_process calls made, in order
  unit                \* a call of one core method on its own (see below)

vars ==
  <<current_file_path, raw_text, clean_text, btn_run, btn_select, lbl_status,
    threads, after_queue, written, finished, unit>>

handlerVars == <<current_file_path, raw_text, clean_text>>
windowVars  == <<btn_run, btn_select, lbl_status, threads, after_queue,
                 written, finished>>

\* How many analysis runs a behaviour starts.
MaxRuns == 2

\* No core method is being called on its own.
NoUnit == [op |-> "none"]

\* MainWindow.__init__ and _setup_ui
InitWindow ==
  /\ current_file_path = NoPath
  /\ raw_text = <<>>
  /\ clean_text = <<>>
  /\ btn_run = "disabled"
  /\ btn_select = "normal"
  /\ lbl_status = ""
  /\ threads = <<>>
  /\ after_queue = <<>>
  /\ written = {}
  /\ finished = <<>>

Init == InitWindow /\ unit = NoUnit

(***************************************************************************)
(* MainWindow: the handlers of the two buttons                             *)
(***************************************************************************)

\* An on_select_file that also runs while its button is disabled.
on_select_file_while_disabled ==
  /\ \E path \in DialogPaths :
       LET accepted == path # NoPath /\ path \in Files
       IN  /\ current_file_path' = SetFilePath(current_file_path, path)
           /\ btn_run' = IF accepted THEN "normal" ELSE btn_run
           /\ lbl_status' = IF accepted THEN "Bereit." ELSE lbl_status
  /\ UNCHANGED <<raw_text, clean_text, btn_select, threads, after_queue,
                 written, finished, unit>>

\* on_select_file, the dialog returning path
on_select_file ==
  /\ btn_select = "normal"
  /\ \E path \in DialogPaths :
       LET accepted == path # NoPath /\ path \in Files
       IN  /\ current_file_path' = SetFilePath(current_file_path, path)
           /\ btn_run' = IF accepted THEN "normal" ELSE btn_run
           /\ lbl_status' = IF accepted THEN "Bereit." ELSE lbl_status
  /\ UNCHANGED <<raw_text, clean_text, btn_select, threads, after_queue,
                 written, finished, unit>>

\* A worker thread about to run _background_task.
NewThread ==
  [pc |-> "read", raw_text |-> <<>>, clean_text |-> <<>>,
   result_text |-> <<>>, read_failed |-> FALSE, inference |-> "none",
   raised |-> FALSE, calls |-> <<>>, scheduled |-> 0,
   source |-> NoPath, original_file_path |-> NoPath]

\* An on_start_processing that leaves the start button as it is.
on_start_processing_run_stays_enabled ==
  /\ btn_run = "normal"
  /\ Len(threads) < MaxRuns
  /\ btn_run' = btn_run
  /\ btn_select' = "disabled"
  /\ threads' = Append(threads, NewThread)
  /\ UNCHANGED <<current_file_path, raw_text, clean_text, lbl_status,
                 after_queue, written, finished, unit>>

\* on_start_processing
on_start_processing ==
  /\ btn_run = "normal"
  /\ Len(threads) < MaxRuns
  /\ btn_run' = "disabled"
  /\ btn_select' = "disabled"
  /\ threads' = Append(threads, NewThread)
  /\ UNCHANGED <<current_file_path, raw_text, clean_text, lbl_status,
                 after_queue, written, finished, unit>>

\* update_status(text): self.after(0, ...)
StatusCallback(text) == [cb |-> "status", text |-> text]

\* self.after(0, lambda: self._finished_process(...)) of run t
FinishedCallback(t, result, doc, pdf, error) ==
  [cb |-> "finished", run |-> t, result |-> result, doc |-> doc,
   pdf |-> pdf, error |-> error]

(***************************************************************************)
(* MainWindow._background_task, one action per stage                       *)
(***************************************************************************)

\* A check for the marker with its colon: raw_text.startswith("Fehler: ")
IsErrorReturn_with_colon(text) == StartsWith(text, FEHLER_PREFIX)

\* raw_text.startswith("Fehler")
IsErrorReturn(text) == StartsWith(text, FEHLER)

\* Step 1: update_status, read_text, and the check of its return value
background_read(t) ==
  /\ threads[t].pc = "read"
  /\ \E io \in ReadOutcomes(current_file_path) :
       LET r == ReadText(current_file_path, raw_text, io)
           me == [threads[t] EXCEPT !.raw_text = r.ret,
                                    !.read_failed = r.failed,
                                    !.source = current_file_path,
                                    !.calls = Append(@, "read_text")]
       IN  /\ raw_text' = r.raw_text
           /\ IF IsErrorReturn(r.ret)
              THEN /\ threads' = [threads EXCEPT ![t] =
                                    [me EXCEPT !.pc = "end", !.scheduled = @ + 1]]
                   /\ after_queue' =
                        after_queue \o
                        <<StatusCallback("Lese Datei..."),
                          FinishedCallback(t, NONE, NoPath, NoPath, r.ret)>>
              ELSE /\ threads' = [threads EXCEPT ![t] =
                                    [me EXCEPT !.pc = "preprocess"]]
                   /\ after_queue' =
                        Append(after_queue, StatusCallback("Lese Datei..."))
  /\ UNCHANGED <<current_file_path, clean_text, btn_run, btn_select,
                 lbl_status, written, finished, unit>>

\* Step 2: update_status, preprocess_text
background_preprocess(t) ==
  /\ threads[t].pc = "preprocess"
  /\ clean_text' = IF raw_text = <<>> THEN clean_text
                   ELSE PreprocessedTexts[raw_text]
  /\ threads' = [threads EXCEPT ![t] =
                   [@ EXCEPT !.pc = "analyze",
                             !.clean_text = PreprocessedTexts[raw_text],
                             !.calls = Append(@, "preprocess_text")]]
  /\ after_queue' = Append(after_queue, StatusCallback("Bereinige Text..."))
  /\ UNCHANGED <<current_file_path, raw_text, btn_run, btn_select,
                 lbl_status, written, finished, unit>>

\* str(e) of the exceptions ollama.chat can raise
ChatErrors == {Str(
      <<"c", "o", "n", "n", "e", "c", "t", "i", "o", "n", " ", "r", "e",
        "f", "u", "s", "e", "d">>)}

\* What the model can answer with
ChatContents ==
  { Str(
      <<"#", " ", "A", "n", "a", "l", "y", "s", "e", "\n", "-", " ", "[",
        "R", "E", "Q", "-", "F", "-", "0", "1", "]", " ", "x">>),
    EMPTY_RESPONSE_ERROR }

\* How ollama.chat can end: an exception, a response without content (NONE),
\* a response with empty content, a response with content.
ChatReplies ==
  {[kind |-> "raise", msg |-> e, content |-> NONE] : e \in ChatErrors}
  \cup {[kind |-> "response", msg |-> <<>>, content |-> c] :
          c \in {NONE, <<>>} \cup ChatContents}

\* Which return of analyze_text a reply leads to.
ReplyClass(reply) ==
  IF reply.kind = "raise" THEN "raised"
  ELSE IF reply.content = NONE \/ reply.content = <<>> THEN "empty"
  ELSE "ok"

\* Step 3: update_status, analyze_text
background_analyze(t) ==
  /\ threads[t].pc = "analyze"
  /\ \E reply \in ChatReplies :
       threads' = [threads EXCEPT ![t] =
                     [@ EXCEPT !.pc = "export",
                               !.result_text = AnalyzeResult(reply),
                               !.inference = ReplyClass(reply),
                               !.calls = Append(@, "analyze_text")]]
  /\ after_queue' =
       Append(after_queue, StatusCallback("KI analysiert (bitte warten)..."))
  /\ UNCHANGED <<current_file_path, raw_text, clean_text, btn_run,
                 btn_select, lbl_status, written, finished, unit>>

\* Steps 4 and 5: update_status, get_full_path, save_reports and the
\* scheduling of _finished_process with the result
background_export(t) ==
  /\ threads[t].pc = "export"
  /\ \E docx_ok, pdf_ok \in BOOLEAN :
       LET s == SaveReports(threads[t].result_text,
                            GetFullPath(current_file_path), docx_ok, pdf_ok)
       IN  /\ written' = written \cup
                         {[run |-> t, path |-> w.path, format |-> w.format,
                           text |-> w.text] : w \in s.written}
           /\ after_queue' =
                after_queue \o
                <<StatusCallback("Erstelle Dokument..."),
                  FinishedCallback(t, threads[t].result_text, s.ret[1],
                                   s.ret[2], NONE)>>
  /\ threads' = [threads EXCEPT ![t] =
                   [@ EXCEPT !.pc = "end",
                             !.scheduled = @ + 1,
                             !.original_file_path =
                               GetFullPath(current_file_path),
                             !.calls = Append(@, "save_reports")]]
  /\ UNCHANGED <<current_file_path, raw_text, clean_text, btn_run,
                 btn_select, lbl_status, finished, unit>>

\* str(e) of the exceptions that escape a stage: read_text and analyze_text
\* catch every Exception themselves, preprocess_text and save_reports do
\* not (a MemoryError, whose str is empty, in re.sub or in building the
\* paths).
UnexpectedErrors == { <<>> }

KRITISCHER_FEHLER == Str(
      <<"K", "r", "i", "t", "i", "s", "c", "h", "e", "r", " ", "F", "e",
        "h", "l", "e", "r", ":", " ">>)

\* The stage that is called at a position of the worker.
StageCall(pc) == IF pc = "preprocess" THEN "preprocess_text" ELSE "save_reports"

\* The status text set before the stage at a position of the worker.
StageStatus(pc) ==
  IF pc = "preprocess" THEN "Bereinige Text..." ELSE "Erstelle Dokument..."

\* An except branch that lets the exception go: the thread dies.
background_except_uncaught(t) ==
  /\ threads[t].pc \in {"preprocess", "export"}
  /\ \E e \in UnexpectedErrors :
       /\ threads' = [threads EXCEPT ![t] =
                        [@ EXCEPT !.pc = "end",
                                  !.raised = TRUE,
                                  !.calls = Append(@, StageCall(threads[t].pc))]]
       /\ after_queue' =
            Append(after_queue, StatusCallback(StageStatus(threads[t].pc)))
  /\ UNCHANGED <<current_file_path, raw_text, clean_text, btn_run,
                 btn_select, lbl_status, written, finished, unit>>

\* The except branch: preprocess_text or save_reports raised e, and
\* _finished_process is scheduled with "Kritischer Fehler: " + str(e).
background_except(t) ==
  /\ threads[t].pc \in {"preprocess", "export"}
  /\ \E e \in UnexpectedErrors :
       /\ threads' = [threads EXCEPT ![t] =
                        [@ EXCEPT !.pc = "end",
                                  !.raised = TRUE,
                                  !.scheduled = @ + 1,
                                  !.calls = Append(@, StageCall(threads[t].pc))]]
       /\ after_queue' =
            after_queue \o
            <<StatusCallback(StageStatus(threads[t].pc)),
              FinishedCallback(t, NONE, NoPath, NoPath, KRITISCHER_FEHLER \o e)>>
  /\ UNCHANGED <<current_file_path, raw_text, clean_text, btn_run,
                 btn_select, lbl_status, written, finished, unit>>

(***************************************************************************)
(* The main loop running the scheduled callbacks                           *)
(***************************************************************************)

\* The lambda of update_status
run_status_callback ==
  /\ after_queue # <<>>
  /\ Head(after_queue).cb = "status"
  /\ lbl_status' = Head(after_queue).text
  /\ after_queue' = Tail(after_queue)
  /\ UNCHANGED <<current_file_path, raw_text, clean_text, btn_run,
                 btn_select, threads, written, finished, unit>>

\* MainWindow._finished_process(result, doc, pdf, error)
_finished_process ==
  /\ after_queue # <<>>
  /\ Head(after_queue).cb = "finished"
  /\ LET c == Head(after_queue)
         is_error == c.error # NONE /\ c.error # <<>>
         has_window == c.result # NONE /\ c.result # <<>> /\ c.doc # NoPath
     IN  /\ btn_run' = "normal"
         /\ btn_select' = "normal"
         /\ lbl_status' = IF is_error THEN "Fehler!" ELSE "Fertig gespeichert."
         /\ finished' =
              Append(finished,
                     [run |-> c.run, result |-> c.result, doc |-> c.doc,
                      pdf |-> c.pdf, error |-> c.error,
                      shown |-> IF is_error THEN "showerror"
                                ELSE IF has_window THEN "ResultWindow"
                                ELSE "nothing"])
  /\ after_queue' = Tail(after_queue)
  /\ UNCHANGED <<current_file_path, raw_text, clean_text, threads, written,
                 unit>>

Next ==
  \/ on_select_file
  \/ on_start_processing
  \/ \E t \in 1..Len(threads) : background_read(t)
  \/ \E t \in 1..Len(threads) : background_preprocess(t)
  \/ \E t \in 1..Len(threads) : background_analyze(t)
  \/ \E t \in 1..Len(threads) : background_export(t)
  \/ \E t \in 1..Len(threads) : background_except(t)
  \/ run_status_callback
  \/ _finished_process

Spec == Init /\ [][Next]_vars

\* A step of the worker thread t.
WorkerStep(t) ==
  \/ background_read(t)
  \/ background_preprocess(t)
  \/ background_analyze(t)
  \/ background_export(t)
  \/ background_except(t)

\* The stage calls return, so every started worker goes on, and the main
\* loop runs the callbacks scheduled with after(0, ...).
Fairness ==
  /\ \A t \in 1..MaxRuns : WF_vars(t \in 1..Len(threads) /\ WorkerStep(t))
  /\ WF_vars(run_status_callback)
  /\ WF_vars(_finished_process)

SpecLive == Init /\ [][Next]_vars /\ Fairness

(***************************************************************************)
(* The core methods called on their own, each on inputs drawn from a       *)
(* bounded set.  The record unit holds the call: its arguments, whether it *)
(* has returned, and what it returned.  The window does not take part.     *)
(***************************************************************************)

RECURSIVE SeqsUpTo(_, _)
\* The sequences of at most n elements of S.
SeqsUpTo(S, n) ==
  IF n = 0 THEN {<<>>}
  ELSE LET shorter == SeqsUpTo(S, n - 1)
       IN  shorter \cup {Append(q, x) : q \in shorter, x \in S}

(***************************************************************************)
(* FileHandler.preprocess_text on its own                                  *)
(***************************************************************************)

\* The pieces raw texts are put together from.
Fragments ==
  { Str(<<"a">>), Str(<<"-", " ">>), Str(<<" ">>), Str(<<"S", "e", "i", "t", "e", " ", "1", " ", "v", "o", "n", " ">>), Str(<<"2">>) }

\* How many pieces a raw text has at most.
MaxFragments == 4

ANFORDE_RUNG == Str(<<"A", "n", "f", "o", "r", "d", "e", "-", " ", "r", "u", "n", "g">>)
ANFORDERUNG  == Str(<<"A", "n", "f", "o", "r", "d", "e", "r", "u", "n", "g">>)
SEITE_3_VON_10_TEXT == Str(
      <<"S", "e", "i", "t", "e", " ", "3", " ", "v", "o", "n", " ", "1",
        "0", " ", "T", "e", "x", "t">>)
TEXT == Str(<<"T", "e", "x", "t">>)

\* Raw texts with line breaks, tabs, upper case, consecutive hyphen breaks,
\* a footer inside a footer and a footer between a hyphen and the next word.
NormalizeExamples ==
  { ANFORDE_RUNG,
    SEITE_3_VON_10_TEXT,
    Str(<<"a", "-", " ", "b", "-", " ", "c">>),
    Str(
      <<"S", "e", "i", "t", "e", " ", "1", " ", "v", "o", "n", " ", "S",
        "e", "i", "t", "e", " ", "1", " ", "v", "o", "n", " ", "2", " ", "2">>),
    Str(
      <<"A", "n", "f", "o", "r", "d", "e", "-", "\n", " ", " ", "r", "u",
        "n", "g", "\n", "S", "E", "I", "T", "E", "\t", "3", " ", "V", "O",
        "N", " ", "1", "0", "\n", " ", "E", "n", "d", "e", " ">>),
    Str(
      <<"a", "-", "S", "e", "i", "t", "e", " ", "1", " ", "v", "o", "n",
        " ", "2", " ", "b">>),
    Str(
      <<"S", "e", "i", "t", "e", " ", "1", " ", "v", "o", "n", " ", "2",
        "-", " ", "a">>),
    Str(<<"x", " ", "-", " ", "y">>) \o <<160, 228, 45, 10, 223>> }

NormalizeInputs ==
  {Concat(fs) : fs \in SeqsUpTo(Fragments, MaxFragments)}
  \cup NormalizeExamples

\* A FileHandler whose read_text has stored raw.
PreprocessUnit(raw) ==
  [op |-> "preprocess_text", raw_text |-> raw, clean_text |-> <<>>,
   calls |-> 0, input |-> raw, first |-> NONE, ret |-> NONE]

InitNormalize ==
  /\ InitWindow
  /\ unit \in {PreprocessUnit(raw) : raw \in NormalizeInputs}

\* preprocess_text()
preprocess_text ==
  /\ unit.op = "preprocess_text"
  /\ unit.calls = 0
  /\ unit' = [unit EXCEPT
                !.calls = 1,
                !.clean_text = PreprocessCleanText(unit.raw_text, unit.clean_text),
                !.first = PreprocessResult(unit.raw_text),
                !.ret = PreprocessResult(unit.raw_text)]
  /\ UNCHANGED <<handlerVars, windowVars>>

\* preprocess_text() on the text the first call returned
preprocess_text_again ==
  /\ unit.op = "preprocess_text"
  /\ unit.calls = 1
  /\ unit' = [unit EXCEPT
                !.calls = 2,
                !.raw_text = unit.ret,
                !.clean_text = PreprocessCleanText(unit.ret, unit.clean_text),
                !.ret = PreprocessResult(unit.ret)]
  /\ UNCHANGED <<handlerVars, windowVars>>

NextNormalize == preprocess_text \/ preprocess_text_again

SpecNormalize == InitNormalize /\ [][NextNormalize]_vars

(***************************************************************************)
(* ReportExporter.save_reports on its own                                  *)
(***************************************************************************)

\* The pieces file names are put together from: a word and three
\* extensions, so that a name can start with a dot or hold several.
NameParts ==
  { Str(<<"d", "o", "c">>), Str(<<".", "v", "2">>),
    Str(<<".", "p", "d", "f">>), Str(<<".", "d", "o", "c", "x">>) }

\* How many pieces a file name has at most.
MaxNameParts == 3

ExportNames == {Concat(ps) : ps \in SeqsUpTo(NameParts, MaxNameParts)} \ {<<>>}

ExportDirs == {"/a/b", "/"}

ExportPaths ==
  {NoPath} \cup {[parent |-> d, name |-> n] : d \in ExportDirs, n \in ExportNames}

ExportTexts == { <<>>, Str(<<"#", " ", "A", "\n", "x">>) }

SaveReportsUnit(text, path) ==
  [op |-> "save_reports", text_content |-> text, original_file_path |-> path,
   done |-> FALSE, docx_ok |-> FALSE, pdf_ok |-> FALSE,
   s |-> SaveReports(<<>>, NoPath, FALSE, FALSE)]

InitExport ==
  /\ InitWindow
  /\ unit \in {SaveReportsUnit(text, path) :
                 text \in ExportTexts, path \in ExportPaths}

\* save_reports(text_content, original_file_path)
save_reports ==
  /\ unit.op = "save_reports"
  /\ ~unit.done
  /\ \E docx_ok, pdf_ok \in BOOLEAN :
       unit' = [unit EXCEPT
                  !.done = TRUE,
                  !.docx_ok = docx_ok,
                  !.pdf_ok = pdf_ok,
                  !.s = SaveReports(unit.text_content, unit.original_file_path,
                                    docx_ok, pdf_ok)]
  /\ UNCHANGED <<handlerVars, windowVars>>

NextExport == save_reports

SpecExport == InitExport /\ [][NextExport]_vars

(***************************************************************************)
(* RequirementAnalyzer.analyze_text on its own                             *)
(***************************************************************************)

\* How far below and above MAX_INPUT_LENGTH the long inputs reach.
LengthMargin == 4

\* A text of n characters: "ab ab ab ..." when k = 0, digits when k = 1.
LongText(n, k) ==
  [i \in 1..n |-> IF k = 1 THEN 48 + (i % 10)
                  ELSE IF i % 3 = 0 THEN SPACE ELSE 96 + (i % 3)]

AnalyzeInputs ==
  { <<>>, Str(<<"S", "y", "s", "t", "e", "m">>) }
  \cup {LongText(n, k) :
          n \in (MAX_INPUT_LENGTH - LengthMargin)..(MAX_INPUT_LENGTH + LengthMargin),
          k \in {0, 1}}

AnalyzeUnit(text) ==
  [op |-> "analyze_text", text_input |-> text, done |-> FALSE,
   reply |-> [kind |-> "none", msg |-> <<>>, content |-> NONE],
   messages |-> <<>>, ret |-> NONE]

InitAnalyze ==
  /\ InitWindow
  /\ unit \in {AnalyzeUnit(text) : text \in AnalyzeInputs}

\* analyze_text(text_input), ollama.chat ending with reply
analyze_text ==
  /\ unit.op = "analyze_text"
  /\ ~unit.done
  /\ \E reply \in ChatReplies :
       unit' = [unit EXCEPT
                  !.done = TRUE,
                  !.reply = reply,
                  !.messages = ChatMessages(unit.text_input),
                  !.ret = AnalyzeResult(reply)]
  /\ UNCHANGED <<handlerVars, windowVars>>

NextAnalyze == analyze_text

SpecAnalyze == InitAnalyze /\ [][NextAnalyze]_vars

(***************************************************************************)
(* ReportExporter._sanitize_for_pdf on its own                             *)
(***************************************************************************)

\* The characters of the table, an ASCII letter, the placeholder itself, a
\* Latin-1 letter (u-umlaut), the last Latin-1 character, the first
\* character after it, the euro sign and an emoji outside the BMP.
SanitizeChars ==
  {Replacements[k].char : k \in 1..Len(Replacements)}
  \cup {Ord("A"), QMARK, 252, 255, 256, 8364, 128512}

\* How long a line to sanitize is at most.
MaxLineLen == 2

SanitizeUnit(text) ==
  [op |-> "_sanitize_for_pdf", text |-> text, done |-> FALSE, ret |-> NONE]

InitSanitize ==
  /\ InitWindow
  /\ unit \in {SanitizeUnit(text) : text \in SeqsUpTo(SanitizeChars, MaxLineLen)}

\* _sanitize_for_pdf(text)
_sanitize_for_pdf ==
  /\ unit.op = "_sanitize_for_pdf"
  /\ ~unit.done
  /\ unit' = [unit EXCEPT !.done = TRUE, !.ret = SanitizeForPdf(unit.text)]
  /\ UNCHANGED <<handlerVars, windowVars>>

NextSanitize == _sanitize_for_pdf

SpecSanitize == InitSanitize /\ [][NextSanitize]_vars

(***************************************************************************)
(* ReportExporter._create_docx on its own                                  *)
(***************************************************************************)

TITLE_LINE == Str(<<"#", " ", "T", "i", "t", "l", "e">>)
SOME_TEXT  == Str(<<"S", "o", "m", "e", " ", "t", "e", "x", "t">>)
SUB_LINE   == Str(<<"#", "#", " ", "S", "u", "b">>)

\* The lines report texts are put together from: headings of the three
\* levels, body text, blank lines, a marker with nothing after it, an
\* indented heading, a marker with a fourth '#', headings with a second
\* marker inside.
ReportLines ==
  { TITLE_LINE, SOME_TEXT, <<>>, SUB_LINE,
    Str(<<"#", "#", "#", " ", "R", "e", "q", " ", "#", " ", "1">>),
    Str(<<"#", " ", "A", " ", "#", " ", "B">>),
    Str(<<"#", " ">>),
    Str(<<" ", "\t">>),
    Str(<<" ", " ", "#", "#", " ", "I", "n">>),
    Str(<<"#", "#", "#", "#", " ", "F", "o", "u", "r">>) }

\* The lines ['# Title', 'Some text', '', '## Sub']
EXAMPLE_LINES == <<TITLE_LINE, SOME_TEXT, <<>>, SUB_LINE>>

\* How many lines a report text has at most (EXAMPLE_LINES apart).
MaxReportLines == 3

CreateDocxUnit(lines) ==
  [op |-> "_create_docx", lines |-> lines, text |-> Join(lines, <<LF>>),
   done |-> FALSE, document |-> <<>>, ret |-> FALSE]

InitDocx ==
  /\ InitWindow
  /\ unit \in {CreateDocxUnit(lines) :
                 lines \in (SeqsUpTo(ReportLines, MaxReportLines) \ {<<>>})
                           \cup {EXAMPLE_LINES}}

\* _create_docx(text, path): the document is built and doc.save succeeds
\* or raises
_create_docx ==
  /\ unit.op = "_create_docx"
  /\ ~unit.done
  /\ \E save_ok \in BOOLEAN :
       unit' = [unit EXCEPT
                  !.done = TRUE,
                  !.document = DocxDocument(unit.text),
                  !.ret = save_ok]
  /\ UNCHANGED <<handlerVars, windowVars>>

NextDocx == _create_docx

SpecDocx == InitDocx /\ [][NextDocx]_vars

(***************************************************************************)
(* FileHandler.read_text on its own                                        *)
(***************************************************************************)

\* File names: a stem, or none, followed by an extension in some letter
\* case, by another extension, by a lone dot or by nothing.
ReadStems == { <<>>, Str(<<"a">>), Str(<<"a", ".", "t", "x", "t">>), Str(<<"a", ".", "p", "d", "f">>) }

ReadExtensions ==
  { <<>>, Str(<<".">>), Str(<<".", "p", "d", "f">>), Str(<<".", "P", "D", "F">>), Str(<<".", "P", "d", "f">>),
    Str(<<".", "d", "o", "c", "x">>), Str(<<".", "D", "O", "C", "X">>),
    Str(<<".", "d", "O", "c", "X">>), Str(<<".", "t", "x", "t">>), Str(<<".", "T", "X", "T">>),
    Str(<<".", "d", "o", "c">>) }

ReadNames == {st \o ext : st \in ReadStems, ext \in ReadExtensions} \ {<<>>, <<DOT>>}

ReadPaths == {NoPath} \cup {FilePath(n) : n \in ReadNames}

\* The texts of a page or of a paragraph.
PageTexts == { <<>>, Str(<<"x">>), Str(<<"F", "e", "h", "l", "e", "r">>) }

\* How many pages or paragraphs a file has at most.
MaxPages == 2

\* The raw_text of the handler before the call.
OldRawTexts == { <<>>, Str(<<"o", "l", "d">>) }

ReadTextUnit(path, content, old_raw) ==
  [op |-> "read_text", path |-> path, content |-> content,
   old_raw |-> old_raw, done |-> FALSE, io |-> "none",
   r |-> ReadText(NoPath, old_raw, [kind |-> "content", content |-> <<>>,
                                    text |-> <<>>])]

InitRead ==
  /\ InitWindow
  /\ unit \in {ReadTextUnit(path, content, old_raw) :
                 path \in ReadPaths,
                 content \in SeqsUpTo(PageTexts, MaxPages),
                 old_raw \in OldRawTexts}

\* read_text()
read_text ==
  /\ unit.op = "read_text"
  /\ ~unit.done
  /\ \E io \in ContentOutcomes(unit.content) :
       unit' = [unit EXCEPT
                  !.done = TRUE,
                  !.io = io.kind,
                  !.r = ReadText(unit.path, unit.old_raw, io)]
  /\ UNCHANGED <<handlerVars, windowVars>>

NextRead == read_text

SpecRead == InitRead /\ [][NextRead]_vars

(***************************************************************************)
(* FileHandler: its methods called in any order                            *)
(***************************************************************************)

\* The last call made on the handler: the method, the str it returned, and
\* for set_file_path the bool it returned.
HandlerUnit(last, ret, ok) ==
  [op |-> "FileHandler", last |-> last, ret |-> ret, ok |-> ok]

\* FileHandler.__init__
InitHandler ==
  /\ InitWindow
  /\ unit = HandlerUnit("__init__", <<>>, FALSE)

\* set_file_path(path)
set_file_path ==
  /\ unit.op = "FileHandler"
  /\ \E path \in DialogPaths :
       /\ current_file_path' = SetFilePath(current_file_path, path)
       /\ unit' = HandlerUnit("set_file_path", <<>>,
                              path # NoPath /\ path \in Files)
  /\ UNCHANGED <<raw_text, clean_text, windowVars>>

\* read_text() on the handler as it stands
FileHandler_read_text ==
  /\ unit.op = "FileHandler"
  /\ \E io \in ReadOutcomes(current_file_path) :
       LET r == ReadText(current_file_path, raw_text, io)
       IN  /\ raw_text' = r.raw_text
           /\ unit' = HandlerUnit("read_text", r.ret, ~r.failed)
  /\ UNCHANGED <<current_file_path, clean_text, windowVars>>

\* preprocess_text() on the handler as it stands
FileHandler_preprocess_text ==
  /\ unit.op = "FileHandler"
  /\ clean_text' = PreprocessCleanText(raw_text, clean_text)
  /\ unit' = HandlerUnit("preprocess_text", PreprocessResult(raw_text), TRUE)
  /\ UNCHANGED <<current_file_path, raw_text, windowVars>>

NextHandler ==
  \/ set_file_path
  \/ FileHandler_read_text
  \/ FileHandler_preprocess_text

SpecHandler == InitHandler /\ [][NextHandler]_vars

(***************************************************************************)
(* Properties                                                              *)
(***************************************************************************)

Range(q) == {q[i] : i \in 1..Len(q)}

\* The _finished_process calls of run t that are scheduled and not yet run.
ScheduledFor(t) ==
  {i \in 1..Len(after_queue) :
     after_queue[i].cb = "finished" /\ after_queue[i].run = t}

\* The _finished_process calls of run t that have run.
FinishedFor(t) == {i \in 1..Len(finished) : finished[i].run = t}

\* C1: when the inference step of a run fails (ollama.chat raised, or the
\* response had no content), the run calls save_reports no more, writes no
\* report file, and every _finished_process call of the run carries an
\* error and no result.
C1_InferenceFailureAborts ==
  \A t \in 1..Len(threads) :
    threads[t].inference \in {"raised", "empty"} =>
      /\ "save_reports" \notin Range(threads[t].calls)
      /\ {w \in written : w.run = t} = {}
      /\ \A i \in ScheduledFor(t) :
           after_queue[i].error # NONE /\ after_queue[i].result = NONE
      /\ \A i \in FinishedFor(t) :
           finished[i].error # NONE /\ finished[i].result = NONE

\* C2: normalization is idempotent: preprocess_text applied to the text
\* that preprocess_text returned gives that same text.
C2_NormalizeIdempotent ==
  (unit.op = "preprocess_text" /\ unit.calls = 2) => unit.ret = unit.first

\* The file name with only its final extension removed.
C3_Basename(name) == Stem(name)

\* C3: for a non-empty report text and a source path, save_reports hands
\* its renderers exactly <parent>/<basename>_Report.docx and
\* <parent>/<basename>_Report.pdf, also when the basename holds dots.
C3_ReportPaths ==
  ( /\ unit.op = "save_reports"
    /\ unit.done
    /\ unit.text_content # <<>>
    /\ unit.original_file_path # NoPath )
  =>
  LET src == unit.original_file_path
  IN  /\ unit.s.docx_target =
           [parent |-> src.parent,
            name |-> C3_Basename(src.name) \o REPORT \o EXT_DOCX]
      /\ unit.s.pdf_target =
           [parent |-> src.parent,
            name |-> C3_Basename(src.name) \o REPORT \o EXT_PDF]

\* C4: export failures are isolated per format: whenever save_reports calls
\* the DOCX renderer it calls the PDF renderer too, whether or not the DOCX
\* failed; each slot of the returned pair is a path iff that format's render
\* succeeded, and then it is the path of the file written; a DOCX failure
\* with a PDF success returns (None, <pdf_path>).
C4_ExportIsolated ==
  (unit.op = "save_reports" /\ unit.done) =>
  LET s == unit.s
      docx_rendered == s.docx_called /\ unit.docx_ok
      pdf_rendered  == s.pdf_called /\ unit.pdf_ok
  IN  /\ s.docx_called <=> s.pdf_called
      /\ (unit.text_content # <<>> /\ unit.original_file_path # NoPath)
           => s.pdf_called
      /\ (s.ret[1] # NoPath) <=> docx_rendered
      /\ (s.ret[2] # NoPath) <=> pdf_rendered
      /\ docx_rendered =>
           /\ s.ret[1] = s.docx_target
           /\ \E w \in s.written : w.path = s.ret[1] /\ w.format = "docx"
      /\ pdf_rendered =>
           /\ s.ret[2] = s.pdf_target
           /\ \E w \in s.written : w.path = s.ret[2] /\ w.format = "pdf"
      /\ \A w \in s.written :
           \/ w.format = "docx" /\ docx_rendered
           \/ w.format = "pdf" /\ pdf_rendered
      /\ (s.docx_called /\ ~unit.docx_ok /\ unit.pdf_ok)
           => s.ret = <<NoPath, s.pdf_target>>

\* C4 witness: a call in which the DOCX failed and the PDF was written.
C4_DocxFailedPdfWritten ==
  /\ unit.op = "save_reports"
  /\ unit.done
  /\ unit.s.docx_called
  /\ ~unit.docx_ok
  /\ unit.pdf_ok
  /\ unit.s.ret = <<NoPath, unit.s.pdf_target>>
  /\ unit.s.pdf_target # NoPath

\* C5: when extraction fails (read_text took one of its error returns), the
\* run ends there: read_text is the only core method it has called, it
\* writes no report, and it schedules _finished_process once, with the text
\* read_text returned as the error and without a result.
C5_ExtractionFailureAborts ==
  \A t \in 1..Len(threads) :
    threads[t].read_failed =>
      /\ threads[t].pc = "end"
      /\ threads[t].calls = <<"read_text">>
      /\ IsErrorReturn(threads[t].raw_text)
      /\ {w \in written : w.run = t} = {}
      /\ Cardinality(ScheduledFor(t)) + Cardinality(FinishedFor(t)) = 1
      /\ \A i \in ScheduledFor(t) :
           /\ after_queue[i].error = threads[t].raw_text
           /\ after_queue[i].result = NONE
      /\ \A i \in FinishedFor(t) :
           /\ finished[i].error = threads[t].raw_text
           /\ finished[i].result = NONE
           /\ finished[i].shown = "showerror"

\* C5 witness: two runs have finished with an extraction error, one on an
\* unsupported extension and one on an exception raised while reading.
C5_ReadFailuresFinished ==
  \E i, j \in 1..Len(finished) :
    /\ threads[finished[i].run].read_failed
    /\ StartsWith(finished[i].error, ERR_FORMAT_HEAD)
    /\ threads[finished[j].run].read_failed
    /\ StartsWith(finished[j].error, ERR_READ)

\* C6: the document text in the user message analyze_text submits is
\* exactly the first min(len(text), MAX_INPUT_LENGTH) characters of its
\* input, never more, and an input within the budget is submitted whole.
C6_TruncatedBeforeSubmission ==
  (unit.op = "analyze_text" /\ unit.done) =>
  LET user == unit.messages[2]
      doc  == DropFirst(user.content, Len(INPUT_LABEL))
  IN  /\ Len(unit.messages) = 2
      /\ unit.messages[1].role = "system"
      /\ user.role = "user"
      /\ StartsWith(user.content, INPUT_LABEL)
      /\ Len(doc) <= 12000
      /\ Len(doc) = Min(Len(unit.text_input), 12000)
      /\ \A i \in 1..Len(doc) : doc[i] = unit.text_input[i]
      /\ Len(unit.text_input) <= 12000 => doc = unit.text_input

\* C6 witness: an input longer than the budget has been submitted, cut.
C6_LongInputSubmitted ==
  /\ unit.op = "analyze_text"
  /\ unit.done
  /\ Len(unit.text_input) > MAX_INPUT_LENGTH
  /\ Len(unit.messages[2].content) = Len(INPUT_LABEL) + MAX_INPUT_LENGTH

\* What C7 expects in place of the character c.
C7_Expected(c) ==
  IF \E k \in 1..Len(Replacements) : Replacements[k].char = c
  THEN Replacements[CHOOSE k \in 1..Len(Replacements) :
                      Replacements[k].char = c].replacement
  ELSE IF c \in 0..255 THEN <<c>>
  ELSE <<QMARK>>

\* C7: _sanitize_for_pdf is total: for every input line it has a value,
\* a str of Latin-1 characters; in what it returns every character of the
\* substitution table is replaced by its table value, every other character
\* outside Latin-1 by one '?', and the Latin-1 characters are kept.
C7_SanitizeTotal ==
  unit.op = "_sanitize_for_pdf" =>
    /\ SanitizeForPdf(unit.text) \in Seq(0..255)
    /\ unit.done =>
         /\ \A i \in 1..Len(unit.ret) : unit.ret[i] \in 0..255
         /\ unit.ret =
              Concat([i \in 1..Len(unit.text) |-> C7_Expected(unit.text[i])])

\* C7 witness: a line with the check mark and the euro sign has come out
\* as "[OK]?".
C7_TableAndPlaceholder ==
  /\ unit.op = "_sanitize_for_pdf"
  /\ unit.done
  /\ unit.text = <<10004, 8364>>
  /\ unit.ret = Str(<<"[", "O", "K", "]", "?">>)

\* Whether every character of the line is whitespace.
IsBlank(line) == \A i \in 1..Len(line) : IsSpace(line[i])

\* What C8 expects of one line: nothing, a heading of a level, or a
\* paragraph (level 0).
C8_Element(line) ==
  IF IsBlank(line) THEN <<>>
  ELSE IF StartsWith(line, Str(<<"#", " ">>))
       THEN <<[kind |-> "heading", level |-> 1]>>
  ELSE IF StartsWith(line, Str(<<"#", "#", " ">>))
       THEN <<[kind |-> "heading", level |-> 2]>>
  ELSE IF StartsWith(line, Str(<<"#", "#", "#", " ">>))
       THEN <<[kind |-> "heading", level |-> 3]>>
  ELSE <<[kind |-> "paragraph", level |-> 0]>>

\* The kinds and levels of the elements after the title.
C8_Body(document) ==
  [i \in 1..(Len(document) - 1) |->
     [kind |-> document[i + 1].kind, level |-> document[i + 1].level]]

\* C8 as stated: every line of the text, as it stands, is classified: a
\* blank line gives nothing, a line prefixed with '# ', '## ' or '### ' one
\* heading of level 1, 2 or 3, every other line one paragraph, in line
\* order.
C8_LinesClassified ==
  (unit.op = "_create_docx" /\ unit.done) =>
    C8_Body(unit.document) =
      Concat([i \in 1..Len(unit.lines) |-> C8_Element(unit.lines[i])])

\* C8 amended: every line of the text is classified after its surrounding
\* whitespace is trimmed: a line that is blank gives nothing, a trimmed
\* line prefixed with '# ', '## ' or '### ' one heading of level 1, 2 or 3,
\* every other one paragraph, in line order; the lines
\* ['# Title', 'Some text', '', '## Sub'] give one level-1 heading, one
\* paragraph and one level-2 heading.
C8_TrimmedLinesClassified ==
  (unit.op = "_create_docx" /\ unit.done) =>
    /\ unit.document[1].level = 0
    /\ C8_Body(unit.document) =
         Concat([i \in 1..Len(unit.lines) |-> C8_Element(Strip(unit.lines[i]))])
    /\ unit.lines = EXAMPLE_LINES =>
         C8_Body(unit.document) =
           << [kind |-> "heading", level |-> 1],
              [kind |-> "paragraph", level |-> 0],
              [kind |-> "heading", level |-> 2] >>

\* C8 witness: the example has been rendered: the title and three elements.
C8_ExampleRendered ==
  /\ unit.op = "_create_docx"
  /\ unit.done
  /\ unit.lines = EXAMPLE_LINES
  /\ Len(unit.document) = 4

\* Whether the text has no whitespace but single spaces between other
\* characters.
C9_Normal(text) ==
  /\ \A i \in 1..Len(text) : IsSpace(text[i]) => text[i] = SPACE
  /\ \A i \in 1..(Len(text) - 1) : ~(text[i] = SPACE /\ text[i + 1] = SPACE)
  /\ text # <<>> => (text[1] # SPACE /\ text[Len(text)] # SPACE)

C10_EmptyResponseDistinct ==
  (unit.op = "analyze_text" /\ unit.done) =>
    /\ unit.ret # <<>>
    /\ ReplyClass(unit.reply) = "empty" => unit.ret = EMPTY_RESPONSE_ERROR
    /\ ReplyClass(unit.reply) = "ok" => unit.ret # EMPTY_RESPONSE_ERROR

\* C11: read_text detects the format from the extension of the path in any
\* letter case: '.pdf' goes to _read_pdf and '.docx' to _read_docx; every
\* other or missing extension gives the unsupported-format error carrying
\* the rejected extension, no helper is called and raw_text is unchanged.
C11_FormatDetection ==
  (unit.op = "read_text" /\ unit.done /\ unit.path # NoPath) =>
    LET ext == Suffix(unit.path.name)
    IN  /\ Lower(ext) = EXT_PDF => unit.r.reader = "_read_pdf"
        /\ Lower(ext) = EXT_DOCX => unit.r.reader = "_read_docx"
        /\ Lower(ext) \notin {EXT_PDF, EXT_DOCX} =>
             /\ unit.r.reader = "none"
             /\ unit.r.ret = ERR_FORMAT_HEAD \o ext \o ERR_FORMAT_TAIL
             /\ unit.r.raw_text = unit.old_raw

\* C11, amended: as C11, and the error carries the rejected extension in
\* lower case.
C11_FormatDetectionLowered ==
  (unit.op = "read_text" /\ unit.done /\ unit.path # NoPath) =>
    LET ext == Suffix(unit.path.name)
    IN  /\ Lower(ext) = EXT_PDF => unit.r.reader = "_read_pdf"
        /\ Lower(ext) = EXT_DOCX => unit.r.reader = "_read_docx"
        /\ Lower(ext) \notin {EXT_PDF, EXT_DOCX} =>
             /\ unit.r.reader = "none"
             /\ unit.r.ret = ERR_FORMAT_HEAD \o Lower(ext) \o ERR_FORMAT_TAIL
             /\ unit.r.raw_text = unit.old_raw

\* C11 witness: 'a.pdf.TXT' was rejected with '.txt' in the error while the
\* handler held an earlier text, which it still holds.
C11_UpperCaseRejected ==
  /\ unit.op = "read_text"
  /\ unit.done
  /\ unit.path = FilePath(Str(<<"a", ".", "p", "d", "f", ".", "T", "X", "T">>))
  /\ unit.old_raw # <<>>
  /\ unit.r.raw_text = unit.old_raw
  /\ unit.r.ret = ERR_FORMAT_HEAD \o Str(<<".", "t", "x", "t">>) \o ERR_FORMAT_TAIL

\* The worker threads that have not returned yet.
RunsInFlight == {t \in 1..Len(threads) : threads[t].pc # "end"}

\* C12: at most one worker thread is running at any time, and from the
\* start of a run until its _finished_process call both buttons are
\* disabled.
C12_OneRunInFlight ==
  /\ Cardinality(RunsInFlight) <= 1
  /\ \A t \in 1..Len(threads) :
       (t \in RunsInFlight \/ ScheduledFor(t) # {}) =>
         (btn_run = "disabled" /\ btn_select = "disabled")

\* C12 witness: a second run is at work after the first has ended and its
\* _finished_process has re-enabled the buttons.
C12_SecondRunAfterFirst ==
  /\ Len(threads) = 2
  /\ threads[1].pc = "end"
  /\ FinishedFor(1) # {}
  /\ threads[2].pc = "analyze"
  /\ btn_run = "disabled"

\* Every worker that has returned has scheduled _finished_process once, a
\* worker still at work has not, and the call carries either an error or a
\* result.
C13_ScheduledOnce ==
  \A t \in 1..Len(threads) :
    /\ threads[t].scheduled = (IF threads[t].pc = "end" THEN 1 ELSE 0)
    /\ Cardinality(ScheduledFor(t)) + Cardinality(FinishedFor(t))
         = threads[t].scheduled
    /\ \A i \in ScheduledFor(t) :
         (after_queue[i].error = NONE) # (after_queue[i].result = NONE)

\* C13: whichever stage fails or raises, the worker of a run ends having
\* scheduled _finished_process exactly once, with an error or with a
\* result; every run started is eventually finished; and _finished_process
\* leaves both buttons enabled.
C13_EveryRunCompletes ==
  /\ []C13_ScheduledOnce
  /\ \A t \in 1..MaxRuns : (Len(threads) >= t) ~> (FinishedFor(t) # {})
  /\ [][finished' # finished => (btn_run' = "normal" /\ btn_select' = "normal")]_vars

\* C13 witness: a run whose stage raised has been finished with the
\* critical error in an error dialog, and the buttons are enabled again.
C13_CriticalErrorShown ==
  \E i \in 1..Len(finished) :
    /\ threads[finished[i].run].raised
    /\ StartsWith(finished[i].error, KRITISCHER_FEHLER)
    /\ finished[i].shown = "showerror"
    /\ btn_run = "normal"
    /\ btn_select = "normal"

\* C14: a run ends at the extraction step, with what read_text returned as
\* its error, only if read_text failed; a run whose extraction succeeded,
\* whatever the text, goes on to preprocess_text and, unless that raises,
\* to analyze_text.
C14_MarkerSeparatesFailure ==
  \A t \in 1..Len(threads) :
    (threads[t].pc = "end" /\ ~threads[t].read_failed) =>
      /\ threads[t].calls # <<"read_text">>
      /\ "preprocess_text" \in Range(threads[t].calls)
      /\ ~threads[t].raised => "analyze_text" \in Range(threads[t].calls)

\* What read_text gets from the file the handler holds, when the file can
\* be read.
CurrentFileRead ==
  ReadText(current_file_path, <<>>,
           [kind |-> "content", content |-> FileContent(current_file_path),
            text |-> <<>>])

\* C15: after any sequence of set_file_path, read_text and preprocess_text
\* calls, a non-empty text returned by preprocess_text is the normalization
\* of the text of the file current_file_path holds, and clean_text holds
\* that same text.
C15_NoStaleText ==
  (unit.op = "FileHandler" /\ unit.last = "preprocess_text" /\ unit.ret # <<>>)
  =>
    /\ ~CurrentFileRead.failed
    /\ unit.ret = PreprocessResult(CurrentFileRead.raw_text)
    /\ clean_text = unit.ret

\* C16: from the read_text call of a run to its save_reports call the
\* handler holds the path read_text was called on; save_reports gets that
\* path, and the reports of the run are written beside that document.
C16_SourceFixedDuringRun ==
  \A t \in 1..Len(threads) :
    /\ threads[t].pc \in {"preprocess", "analyze", "export"} =>
         current_file_path = threads[t].source
    /\ threads[t].original_file_path \in {NoPath, threads[t].source}
    /\ \A w \in written :
         w.run = t =>
           /\ threads[t].original_file_path = threads[t].source
           /\ w.path.parent = threads[t].source.parent
           /\ w.path = ReportPath(threads[t].source,
                                  IF w.format = "docx" THEN EXT_DOCX
                                  ELSE EXT_PDF)

\* C16 witness: two runs have written their reports, the second for a
\* document selected after the first run had finished.
C16_TwoDocumentsReported ==
  /\ Len(threads) = 2
  /\ threads[1].source # threads[2].source
  /\ \E w1, w2 \in written :
       /\ w1.run = 1
       /\ w2.run = 2
       /\ w1.path # w2.path

\* What C17 expects of one line: a heading holds the trimmed line without
\* its leading marker, a paragraph the trimmed line.
C17_Element(raw_line) ==
  LET line == Strip(raw_line)
  IN  IF line = <<>> THEN <<>>
      ELSE IF StartsWith(line, H1)
           THEN <<[kind |-> "heading", level |-> 1,
                   text |-> DropFirst(line, Len(H1))]>>
      ELSE IF StartsWith(line, H2)
           THEN <<[kind |-> "heading", level |-> 2,
                   text |-> DropFirst(line, Len(H2))]>>
      ELSE IF StartsWith(line, H3)
           THEN <<[kind |-> "heading", level |-> 3,
                   text |-> DropFirst(line, Len(H3))]>>
      ELSE <<[kind |-> "paragraph", level |-> 0, text |-> line]>>

\* C17: the text of every heading is its trimmed line with only the
\* leading marker removed; what follows the marker, further markers
\* included, is in the heading unchanged.
C17_HeadingTextPreserved ==
  (unit.op = "_create_docx" /\ unit.done) =>
    Tail(unit.document) =
      Concat([i \in 1..Len(unit.lines) |-> C17_Element(unit.lines[i])])

=============================================================================
